---- MODULE Spec2Model ----
(***************************************************************************)
(* A model of scrivener-mcp's project core: the binder index (.scrivx),    *)
(* the in-memory binder tree, the per-document payload files, snapshots    *)
(* and the RTF codec, as implemented in                                    *)
(*   src/src/scrivener_mcp/scrivener/{project,binder,rtf}.py               *)
(*                                                                         *)
(* Representation.                                                         *)
(*  - A string that the code takes apart or concatenates (titles, paths,   *)
(*    document text, RTF bytes, file names) is a sequence of symbols; a    *)
(*    symbol is one character, or one fixed chunk the code emits whole     *)
(*    (the RTF header, "\par", "\line", "Untitled", a formatted time).     *)
(*  - An ordered forest (the BinderItem elements of the index file, the    *)
(*    BinderItem objects of the handle) is the sequence of its nodes in    *)
(*    document (depth-first) order, each with its depth.  Parent, children *)
(*    and subtree are computed from that sequence.  An entry's identity is *)
(*    its position in the sequence.                                        *)
(*  - The file system is a set of directories and a function from the      *)
(*    paths of the existing files to their contents.                       *)
(***************************************************************************)
EXTENDS Integers, Sequences, FiniteSets, TLC

\* ------------------------------------------------------------------ bounds
\* number of API calls made on handles in one behaviour
MaxOps == 2
\* number of distinct seconds the wall clock shows in one behaviour
MaxClock == 2
\* length of the plain texts put through the codec
MaxLen == 4

\* ------------------------------------------------------- generic helpers
None == 0

\* update or extend a function at one point
Put(f, k, v) == [x \in (DOMAIN f) \cup {k} |-> IF x = k THEN v ELSE f[x]]

\* the smallest element of a non-empty set of integers
Min(S) == CHOOSE x \in S : \A y \in S : x <= y

\* ------------------------------------------------------------ RTF codec
\* The fixed header text_to_rtf emits: it opens the document group, holds
\* the balanced font and colour table groups and ends with "\cf0 ".
RtfHeader == "{\\rtf1...\\f0\\fs24 \\cf0 "

\* str.replace(old, new): leftmost, non-overlapping, over the whole string
RECURSIVE replace(_, _, _)
replace(s, old, new) ==
  IF Len(s) < Len(old) THEN s
  ELSE IF SubSeq(s, 1, Len(old)) = old
       THEN new \o replace(SubSeq(s, Len(old) + 1, Len(s)), old, new)
       ELSE <<s[1]>> \o replace(Tail(s), old, new)

text_to_rtf(text) ==
  LET e1 == replace(text, <<"\\">>, <<"\\", "\\">>)
      e2 == replace(e1, <<"{">>, <<"\\", "{">>)
      e3 == replace(e2, <<"}">>, <<"\\", "}">>)
      e4 == replace(e3, <<"\n", "\n">>, <<"\\par", "\\par", "\n">>)
      e5 == replace(e4, <<"\n">>, <<"\\line", "\n">>)
  IN  <<RtfHeader>> \o e5 \o <<"}">>

Whitespace == {" ", "\n", "\r", "\t"}

\* str.strip()
RECURSIVE lstrip(_)
lstrip(s) == IF s # <<>> /\ s[1] \in Whitespace THEN lstrip(Tail(s)) ELSE s

RECURSIVE rstrip(_)
rstrip(s) ==
  IF s # <<>> /\ s[Len(s)] \in Whitespace THEN rstrip(SubSeq(s, 1, Len(s) - 1)) ELSE s

strip(s) == rstrip(lstrip(s))

\* striprtf's table of characters written for a control symbol or word
SpecialWords == {"\\par", "\\line"}

SpecialChars == {"\\", "{", "}"}

Letters == {"a", "b", "c", "o", "n", "s", "x", "y"}

\* striprtf.rtf_to_text over the symbols from position i on; depth is the
\* number of open groups and ign says the current group is ignorable.
\*   \word[ ]?   a control word, written "\n" for \par and \line, swallows
\*               one following space;
\*   \c          a control symbol, written c for \ { and }, and "*" makes
\*               the group ignorable;
\*   { }         open and close a group (a close restores ign);
\*   CR, LF      are dropped;  any other character is written as it is.
RECURSIVE rtf_scan(_, _, _)
rtf_scan(s, i, ign) ==
  IF i > Len(s) THEN <<>>
  ELSE
    LET c == s[i]
        sp == IF i + 1 <= Len(s) /\ s[i + 1] = " " THEN 1 ELSE 0
    IN
    IF c = RtfHeader THEN rtf_scan(s, i + 1, <<FALSE>> \o ign)
    ELSE IF c = "{" THEN rtf_scan(s, i + 1, <<ign[1]>> \o ign)
    ELSE IF c = "}" THEN
      (IF Len(ign) > 1 THEN rtf_scan(s, i + 1, Tail(ign))
       ELSE rtf_scan(s, i + 1, <<TRUE>>))
    ELSE IF c \in SpecialWords THEN
      (IF ign[1] THEN <<>> ELSE <<"\n">>) \o rtf_scan(s, i + 1 + sp, ign)
    ELSE IF c = "\\" /\ i + 1 <= Len(s) /\ s[i + 1] \notin Letters THEN
      (IF s[i + 1] \in SpecialChars
         THEN (IF ign[1] THEN <<>> ELSE <<s[i + 1]>>) \o rtf_scan(s, i + 2, ign)
       ELSE IF s[i + 1] = "*" THEN rtf_scan(s, i + 2, <<TRUE>> \o Tail(ign))
       ELSE rtf_scan(s, i + 2, ign))
    ELSE IF c = "\\" /\ i + 1 <= Len(s) THEN
      \* an unknown control word: its letters up to the next non-letter
      LET stop == Min({j \in (i + 1)..(Len(s) + 1) :
                         j = Len(s) + 1 \/ s[j] \notin Letters})
          sp2 == IF stop <= Len(s) /\ s[stop] = " " THEN 1 ELSE 0
      IN  rtf_scan(s, stop + sp2, ign)
    ELSE IF c \in {"\n", "\r"} THEN rtf_scan(s, i + 1, ign)
    ELSE (IF ign[1] THEN <<>> ELSE <<c>>) \o rtf_scan(s, i + 1, ign)

rtf_to_text(rtf) == rtf_scan(rtf, 1, <<FALSE>>)

\* count_words: the number of maximal runs of non-whitespace
count_words(text) ==
  Cardinality({i \in 1..Len(text) :
                 /\ text[i] \notin Whitespace
                 /\ (i = 1 \/ text[i - 1] \in Whitespace)})

\* ------------------------------------------------------------ file system
\* fs = [dirs |-> set of directory paths, files |-> [path -> contents]]
data_dir(uuid) == <<"Files", "Data", uuid>>

get_content_path(uuid) == <<"Files", "Data", uuid, "content.rtf">>

get_synopsis_path(uuid) == <<"Files", "Data", uuid, "synopsis.txt">>

get_notes_path(uuid) == <<"Files", "Data", uuid, "notes.rtf">>

get_snapshots_path(uuid) == <<"Snapshots", "Data", uuid>>

\* Path.exists()
exists(f, path) == path \in DOMAIN f.files

\* Path.mkdir(parents=True, exist_ok=True)
mkdir(f, dir) == [f EXCEPT !.dirs = @ \cup {dir}]

\* Path.write_text(data): creates or truncates the file
write_text(f, path, data) == [f EXCEPT !.files = Put(@, path, data)]

\* shutil.copy2(src, dst): dst is created or replaced by src's bytes
copy2(f, src, dst) == [f EXCEPT !.files = Put(@, dst, f.files[src])]

\* the files of one directory
listdir(f, dir) ==
  {p \in DOMAIN f.files : Len(p) > Len(dir) /\ SubSeq(p, 1, Len(dir)) = dir}

\* read_rtf(path)
read_rtf(f, path) ==
  IF ~exists(f, path) THEN <<>>
  ELSE IF strip(f.files[path]) = <<>> THEN <<>>
  ELSE strip(rtf_to_text(f.files[path]))

read_document(f, uuid) == read_rtf(f, get_content_path(uuid))

read_notes(f, uuid) == read_rtf(f, get_notes_path(uuid))

read_synopsis(f, uuid) ==
  IF exists(f, get_synopsis_path(uuid))
    THEN strip(f.files[get_synopsis_path(uuid)])
    ELSE <<>>

\* ------------------------------------------------------------ binder tree
\* A forest is a sequence of nodes in depth-first order with their depths.
\* the last position of the subtree rooted at position i
RECURSIVE Deeper(_, _, _)
Deeper(s, j, d) ==
  IF j < Len(s) /\ s[j + 1].depth > d THEN Deeper(s, j + 1, d) ELSE j

SubtreeEnd(s, i) == Deeper(s, i, s[i].depth)

\* the positions of the children of position i, as a set and in order
ChildSet(s, i) == {k \in (i + 1)..SubtreeEnd(s, i) : s[k].depth = s[i].depth + 1}

SortedSeq(S) ==
  [k \in 1..Cardinality(S) |-> CHOOSE x \in S : Cardinality({y \in S : y < x}) = k - 1]

Children(s, i) == SortedSeq(ChildSet(s, i))

\* BinderItem.parent: the position of the parent, None for a root entry
RECURSIVE Above(_, _, _)
Above(s, j, d) ==
  IF j = 0 \/ s[j].depth = d THEN j ELSE Above(s, j - 1, d)

Parent(s, i) == IF s[i].depth = 0 THEN None ELSE Above(s, i - 1, s[i].depth - 1)

\* BinderItem.is_folder
is_folder_not_text(item) == item.item_type # "Text"

is_folder(item) ==
  item.item_type \in {"Folder", "DraftFolder", "ResearchFolder", "TrashFolder"}

\* BinderItem.is_text
is_text_not_folder(item) == ~is_folder(item)

is_text(item) == item.item_type = "Text"

\* list(reversed(l))
reversed(l) == [k \in 1..Len(l) |-> l[Len(l) + 1 - k]]

\* sep.join(parts)
RECURSIVE join(_, _)
join(sep, parts) ==
  IF parts = <<>> THEN <<>>
  ELSE IF Len(parts) = 1 THEN parts[1]
  ELSE parts[1] \o sep \o join(sep, Tail(parts))

\* the loop of BinderItem.path: the titles collected from the entry upwards
RECURSIVE titles_upwards(_, _)
titles_upwards(s, i) ==
  IF i = None THEN <<>> ELSE <<s[i].title>> \o titles_upwards(s, Parent(s, i))

\* BinderItem.path
path_not_reversed(s, i) == join(<<"/">>, titles_upwards(s, i))

path(s, i) == join(<<"/">>, reversed(titles_upwards(s, i)))

\* str.lower() on the letters that occur
LowerChar(c) == IF c = "Y" THEN "y" ELSE IF c = "E" THEN "e"
                ELSE IF c = "A" THEN "a" ELSE IF c = "B" THEN "b"
                ELSE IF c = "S" THEN "s" ELSE IF c = "N" THEN "n"
                ELSE IF c = "O" THEN "o" ELSE c

lower(s) == [k \in 1..Len(s) |-> LowerChar(s[k])]

\* parse_binder_item on one BinderItem element of the index (its children
\* follow it in the sequence and are parsed by the same rule)
parse_binder_item(element) ==
  [uuid               |-> element.UUID,
   title              |-> IF element.Title # <<>> THEN element.Title ELSE <<"Untitled">>,
   item_type          |-> element.Type,
   created            |-> element.Created,
   modified           |-> element.Modified,
   include_in_compile |-> IF element.IncludeInCompile # <<>>
                            THEN lower(element.IncludeInCompile) = <<"y", "e", "s">>
                            ELSE FALSE,
   depth              |-> element.depth]

\* parse_binder: the forest of BinderItem objects read from the index file
parse_binder(scrivx) == [k \in 1..Len(scrivx.items) |-> parse_binder_item(scrivx.items[k])]

\* ScrivenerProject.find_by_uuid: the first entry in depth-first order
find_by_uuid(s, uuid) ==
  LET hits == {k \in 1..Len(s) : s[k].uuid = uuid}
  IN  IF hits # {} THEN Min(hits) ELSE None

\* ScrivenerProject.find_by_path: the first entry in depth-first order
find_by_path(s, p) ==
  LET hits == {k \in 1..Len(s) : path(s, k) = p}
  IN  IF hits # {} THEN Min(hits) ELSE None

\* ScrivenerProject._find_binder_item_element: first element in document order
_find_binder_item_element(items, target_uuid) ==
  LET hits == {k \in 1..Len(items) : items[k].UUID = target_uuid}
  IN  IF hits # {} THEN Min(hits) ELSE None

\* list.insert: s with x placed at position at (1-based), the rest shifted
InsertAt(s, at, x) == SubSeq(s, 1, at - 1) \o <<x>> \o SubSeq(s, at, Len(s))

\* s without the element at position at
RemoveAt(s, at) == SubSeq(s, 1, at - 1) \o SubSeq(s, at + 1, Len(s))

\* ---------------------------------------------------------------- queries
\* get_word_count(item, recursive): the loop over item.walk() from position
\* k to the end of the subtree (counted[k] says whether entry k passes the
\* kind test), and the count of one entry's content
RECURSIVE word_total(_, _, _, _, _)
word_total(f, s, k, end, counted) ==
  IF k > end THEN 0
  ELSE (IF counted[k] THEN count_words(read_document(f, s[k].uuid)) ELSE 0)
         + word_total(f, s, k + 1, end, counted)

get_word_count_of_every_kind(f, s, i, recursive) ==
  IF recursive THEN word_total(f, s, i, SubtreeEnd(s, i), [k \in 1..Len(s) |-> TRUE])
  ELSE count_words(read_document(f, s[i].uuid))

get_word_count(f, s, i, recursive) ==
  IF recursive THEN word_total(f, s, i, SubtreeEnd(s, i), [k \in 1..Len(s) |-> is_text(s[k])])
  ELSE count_words(read_document(f, s[i].uuid))

\* str.split("\n"): the pieces between the line breaks, empty ones included
RECURSIVE split(_, _)
split(text, cur) ==
  IF text = <<>> THEN <<cur>>
  ELSE IF text[1] = "\n" THEN <<cur>> \o split(Tail(text), <<>>)
  ELSE split(Tail(text), Append(cur, text[1]))

\* re.search(query, line, flags) for the patterns made of ordinary characters
\* and ".", which stands for any character but a line break; IGNORECASE
\* compares without regard to case
re_search(query, line, case_sensitive) ==
  LET same(a, b) == IF case_sensitive THEN a = b ELSE LowerChar(a) = LowerChar(b)
      hit(q, c) == IF q = "." THEN c # "\n" ELSE same(q, c)
  IN  \E k \in 1..(Len(line) - Len(query) + 1) :
        \A j \in 1..Len(query) : hit(query[j], line[k + j - 1])

\* the lines of one entry that search returns
matching_lines(content, query, case_sensitive) ==
  LET lines == split(content, <<>>)
      hits == SelectSeq(lines, LAMBDA line : re_search(query, line, case_sensitive))
  IN  [j \in 1..Len(hits) |-> strip(hits[j])]

\* search(query, case_sensitive): the loop over all_items() from position k
\* (searched[k] says whether entry k passes the kind test)
RECURSIVE search_from(_, _, _, _, _, _)
search_from(f, s, k, query, case_sensitive, searched) ==
  IF k > Len(s) THEN <<>>
  ELSE
    LET content == read_document(f, s[k].uuid)
        found == matching_lines(content, query, case_sensitive)
        rest == search_from(f, s, k + 1, query, case_sensitive, searched)
    IN  IF ~searched[k] THEN rest
        ELSE IF content = <<>> THEN rest
        ELSE IF found # <<>> THEN <<[item |-> k, lines |-> found]>> \o rest
        ELSE rest

search_of_every_kind(f, s, query, case_sensitive) ==
  search_from(f, s, 1, query, case_sensitive, [k \in 1..Len(s) |-> TRUE])

search(f, s, query, case_sensitive) ==
  search_from(f, s, 1, query, case_sensitive, [k \in 1..Len(s) |-> is_text(s[k])])

\* find_draft_folder: the first DraftFolder in depth-first order
find_draft_folder_among_roots(s) ==
  LET hits == {k \in 1..Len(s) : s[k].item_type = "DraftFolder" /\ s[k].depth = 0}
  IN  IF hits # {} THEN Min(hits) ELSE None

find_draft_folder(s) ==
  LET hits == {k \in 1..Len(s) : s[k].item_type = "DraftFolder"}
  IN  IF hits # {} THEN Min(hits) ELSE None

\* "#" * n
Hashes(n) == [k \in 1..n |-> "#"]

\* get_manuscript_text: the parts list, each part with the entry it is for;
\* the loop over draft.walk() from position k (compiled[k] says whether
\* entry k passes the compile-flag test)
RECURSIVE parts_from(_, _, _, _, _, _, _)
parts_from(f, s, k, end, draft, include_titles, compiled) ==
  IF k > end THEN <<>>
  ELSE
    LET item == s[k]
        content == read_document(f, item.uuid)
        rest == parts_from(f, s, k + 1, end, draft, include_titles, compiled)
        part(text) == [src |-> k, text |-> text]
    IN  IF k = draft THEN rest
        ELSE IF is_folder(item) /\ include_titles
          THEN <<part(<<"\n">> \o Hashes(Min({item.depth, 4})) \o <<" ">>
                        \o item.title \o <<"\n">>)>> \o rest
        ELSE IF is_text(item) /\ compiled[k] /\ content # <<>>
          THEN (IF include_titles
                  THEN <<part(<<"\n", "#", "#", "#", " ">> \o item.title \o <<"\n">>)>>
                  ELSE <<>>)
                 \o <<part(content)>> \o rest
        ELSE rest

manuscript_parts_of_every_text(f, s, include_titles) ==
  LET draft == find_draft_folder(s)
  IN  IF draft = None THEN <<>>
      ELSE parts_from(f, s, draft, SubtreeEnd(s, draft), draft, include_titles,
                      [k \in 1..Len(s) |-> TRUE])

manuscript_parts_inherited(f, s, include_titles) ==
  LET draft == find_draft_folder(s)
  IN  IF draft = None THEN <<>>
      ELSE parts_from(f, s, draft, SubtreeEnd(s, draft), draft, include_titles,
                      [k \in 1..Len(s) |->
                         /\ s[k].include_in_compile
                         /\ (Parent(s, k) = None \/ s[Parent(s, k)].include_in_compile)])

manuscript_parts(f, s, include_titles) ==
  LET draft == find_draft_folder(s)
  IN  IF draft = None THEN <<>>
      ELSE parts_from(f, s, draft, SubtreeEnd(s, draft), draft, include_titles,
                      [k \in 1..Len(s) |-> s[k].include_in_compile])

get_manuscript_text(f, s, include_titles) ==
  LET parts == manuscript_parts(f, s, include_titles)
  IN  join(<<"\n">>, [k \in 1..Len(parts) |-> parts[k].text])

\* ------------------------------------------------------------------ state
VARIABLES
  lock,     \* the owning application's user.lock file exists
  now,      \* the wall clock, in whole seconds
  uuidGen,  \* how many identifiers uuid.uuid4() has produced or were in use
  ops,      \* how many calls have been made on the handles
  index,    \* the .scrivx file: [Modified, ModID, items]
  fs,       \* the payload and snapshot directories and files
  tree,     \* tree[h]: the _binder_items forest of handle h
  last,     \* the last call made: its arguments and its outcome
  pre,      \* the project as the last call found it, and the call before it
  root,     \* what lies at the project path: nothing, a file or a directory
  proc      \* proc[h]: where the call running on handle h stands, step by step

vars == <<lock, now, uuidGen, ops, index, fs, tree, last, pre, root, proc>>

\* the handles open on the project; the calls of Spec are made on WriterA
Handles == {"A", "B"}

WriterA == "A"

\* the project directory of an opened project: it holds the index file
IndexFile == [name |-> "p", suffix |-> ".scrivx", kind |-> "file", xml |-> "binder"]

ProjectDir == [kind |-> "dir", entries |-> {IndexFile}]

\* a handle on which no call is running; of a running call: where it stands
\* (pc), whether its process has died there (crashed), its arguments, the
\* time and identifier it has drawn and the patched index it holds in memory
Idle == [pc |-> "idle", crashed |-> FALSE, op |-> "none", item |-> "", title |-> <<>>,
         text |-> <<>>, synopsis |-> <<>>, flag |-> FALSE, position |-> <<>>,
         t |-> 0, uuid |-> "", scrivx |-> [Modified |-> <<>>, ModID |-> "", items |-> <<>>]]

\* uuid.uuid4(): the k-th identifier drawn in the current call; a value
\* never seen before
uuid4_reused(k) == "1"

uuid4(k) == ToString(uuidGen + k)

\* datetime.now().strftime("%Y-%m-%d-%H-%M-%S")
strftime(t) == ToString(t)

\* datetime.now().strftime("%Y-%m-%d %H:%M:%S -0600")
strftime_scrivx(t) == <<ToString(t), " -0600">>

\* ScrivenerProject.is_locked: read from disk at every call
is_locked_dropped == FALSE

is_locked_remembered == last.err = "Locked"

is_locked == lock

\* what a call leaves in last
Call(op, h, item, title, text, flag, position, err, ret) ==
  [op |-> op, h |-> h, item |-> item, title |-> title, text |-> text,
   flag |-> flag, position |-> position, err |-> err, ret |-> ret]

\* what a call finds when it is made
Found ==
  [lock |-> lock, now |-> now, index |-> index, fs |-> fs, tree |-> tree,
   prev_op |-> last.op, prev_err |-> last.err, uuidGen |-> uuidGen]

\* every call is counted and recorded
Made(c) ==
  /\ last' = c
  /\ pre' = Found
  /\ ops' = ops + 1
  /\ UNCHANGED <<root, proc>>

\* a call that raises before it has changed anything
Raise(c) ==
  /\ Made(c)
  /\ UNCHANGED <<lock, now, uuidGen, index, fs, tree>>

\* ------------------------------------------------------------- snapshots
AutoTitle == "Auto-snapshot before edit"

NotesBackup == "notes-backup"

\* the characters re.sub(r'[^\w\s-]', '', title) keeps
SafeSymbols == Letters \cup Whitespace \cup {"-", "_", "1", "2", "3", "4", "5",
                                             "Snapshot", AutoTitle, NotesBackup}

safe_title(title) == strip(SelectSeq(title, LAMBDA c : c \in SafeSymbols))

\* the file name create_snapshot gives a snapshot taken at time t
snapshot_filename(t, title) ==
  LET timestamp == strftime(t)
      snapshot_title == IF title # <<>> THEN title ELSE <<"Snapshot", " ", timestamp>>
  IN  <<timestamp, " ">> \o safe_title(snapshot_title) \o <<".rtf">>

\* create_snapshot after its kind check: the directory, then the copy
create_snapshot_files(f, uuid, title) ==
  LET f1 == mkdir(f, get_snapshots_path(uuid))
      snapshot_path == get_snapshots_path(uuid) \o snapshot_filename(now, title)
  IN  IF exists(f1, get_content_path(uuid))
        THEN copy2(f1, get_content_path(uuid), snapshot_path)
        ELSE write_text(f1, snapshot_path, text_to_rtf(<<>>))

\* ------------------------------------------------------- payload writes
\* write_document after its checks: snapshot, directory, content
write_document_files_snapshot_last(f, uuid, content, create_snap) ==
  LET f1 == mkdir(f, data_dir(uuid))
      f2 == write_text(f1, get_content_path(uuid), text_to_rtf(content))
  IN  IF create_snap /\ exists(f, get_content_path(uuid))
        THEN create_snapshot_files(f2, uuid, <<AutoTitle>>)
        ELSE f2

write_document_files(f, uuid, content, create_snap) ==
  LET f1 == IF create_snap /\ exists(f, get_content_path(uuid))
              THEN create_snapshot_files(f, uuid, <<AutoTitle>>)
              ELSE f
      f2 == mkdir(f1, data_dir(uuid))
  IN  write_text(f2, get_content_path(uuid), text_to_rtf(content))

\* write_synopsis after its lock check
write_synopsis_files(f, uuid, synopsis) ==
  write_text(mkdir(f, data_dir(uuid)), get_synopsis_path(uuid), strip(synopsis))

\* write_notes after its lock check
write_notes_files(f, uuid, notes, create_snap) ==
  LET f1 == mkdir(f, data_dir(uuid))
      snapshot_path == get_snapshots_path(uuid)
                         \o <<strftime(now), " ", NotesBackup, ".rtf">>
      f2 == IF create_snap /\ exists(f1, get_notes_path(uuid))
              THEN copy2(mkdir(f1, get_snapshots_path(uuid)),
                         get_notes_path(uuid), snapshot_path)
              ELSE f1
  IN  write_text(f2, get_notes_path(uuid), text_to_rtf(notes))

\* ------------------------------------------------------- create_document
\* create_document's payload step: the data directory and the initial files
create_document_files(f, new_uuid, content, synopsis) ==
  LET f1 == mkdir(f, data_dir(new_uuid))
      f2 == IF content # <<>>
              THEN write_text(f1, get_content_path(new_uuid), text_to_rtf(content))
              ELSE f1
  IN  IF synopsis # <<>>
        THEN write_text(f2, get_synopsis_path(new_uuid), synopsis)
        ELSE f2

\* where the new element goes among the elements of the index: position is
\* <<>> (None) or <<p>>; list.insert counts a negative p from the end
insert_index_first(items, parent_elem, position) == parent_elem + 1

insert_index_appended(items, parent_elem, position) ==
  SubtreeEnd(items, parent_elem) + 1

insert_index(items, parent_elem, position) ==
  LET kids == Children(items, parent_elem)
      n == Len(kids)
  IN  IF position # <<>> /\ position[1] < n
        THEN (IF position[1] >= 0 THEN kids[position[1] + 1]
              ELSE IF n + position[1] >= 0 THEN kids[n + position[1] + 1]
              ELSE kids[1])
        ELSE SubtreeEnd(items, parent_elem) + 1

\* the BinderItem element create_document builds
new_elem_always_included(new_uuid, timestamp, title, include_in_compile, depth) ==
  [UUID |-> new_uuid, Type |-> "Text", Created |-> timestamp, Modified |-> timestamp,
   Title |-> title, IncludeInCompile |-> <<"Y", "e", "s">>, depth |-> depth]

new_elem(new_uuid, timestamp, title, include_in_compile, depth) ==
  [UUID |-> new_uuid, Type |-> "Text", Created |-> timestamp, Modified |-> timestamp,
   Title |-> title,
   IncludeInCompile |-> IF include_in_compile THEN <<"Y", "e", "s">> ELSE <<"N", "o">>,
   depth |-> depth]

\* create_document's index step: the parsed file with the element inserted
\* and the project's Modified and ModID set, as _write_scrivx writes it
patch_scrivx_touching_parent(scrivx, parent_elem, elem, position, timestamp, mod_id) ==
  [Modified |-> timestamp,
   ModID    |-> mod_id,
   items    |-> InsertAt([scrivx.items EXCEPT ![parent_elem].Modified = timestamp],
                         insert_index(scrivx.items, parent_elem, position), elem)]

patch_scrivx(scrivx, parent_elem, elem, position, timestamp, mod_id) ==
  [Modified |-> timestamp,
   ModID    |-> mod_id,
   items    |-> InsertAt(scrivx.items,
                         insert_index(scrivx.items, parent_elem, position), elem)]

\* ET.parse(self._scrivx_path) in create_document: the index as the file
\* holds it, whatever forest the handle holds
ET_parse_held_forest(disk, held) ==
  [disk EXCEPT !.items =
     [k \in 1..Len(held) |->
        [UUID |-> held[k].uuid, Type |-> held[k].item_type,
         Created |-> held[k].created, Modified |-> held[k].modified,
         Title |-> held[k].title,
         IncludeInCompile |-> IF held[k].include_in_compile
                                THEN <<"Y", "e", "s">> ELSE <<"N", "o">>,
         depth |-> held[k].depth]]]

ET_parse(disk, held) == disk

\* create_document's last step: the forest the handle holds afterwards
reload_binder_skipped(old, scrivx) == old

reload_binder(old, scrivx) == parse_binder(scrivx)

\* ------------------------------------------------------- initial projects
Elem(uuid, type, title, inc, depth) ==
  [UUID |-> uuid, Type |-> type, Created |-> <<"2020">>, Modified |-> <<"2021">>,
   Title |-> title, IncludeInCompile |-> inc, depth |-> depth]

OldContent == text_to_rtf(<<"o">>)

OldNotes == text_to_rtf(<<"c">>)

\* a draft folder holding a scene with content and notes, and a root text
\* that has no payload yet
ProjectOne ==
  [items |-> << Elem("1", "DraftFolder", <<"D">>, <<"Y", "e", "s">>, 0),
                Elem("2", "Text", <<"S">>, <<"Y", "e", "s">>, 1),
                Elem("3", "Text", <<"N">>, <<>>, 0) >>,
   fs    |-> [dirs  |-> {data_dir("2")},
              files |-> (get_content_path("2") :> OldContent)
                          @@ (get_notes_path("2") :> OldNotes)]]

\* a folder holding two entries of the same title, the second of a kind
\* this system does not know, and a title-less root text
ProjectTwo ==
  [items |-> << Elem("1", "Folder", <<"F">>, <<"N", "o">>, 0),
                Elem("2", "Text", <<"x">>, <<"Y", "E", "S">>, 1),
                Elem("3", "Other", <<"x">>, <<"Y", "e", "s">>, 1) >>,
   fs    |-> [dirs  |-> {data_dir("2"), data_dir("3")},
              files |-> (get_content_path("2") :> OldContent)
                          @@ (get_content_path("3") :> OldContent)]]

InitialProjects == {ProjectOne, ProjectTwo}

\* the arguments the calls are made with
Texts == {<<"a">>, <<"a", "\n", "\n", "b">>}

NoteTexts == {<<"n">>}

Synopses == {<<" ", "s">>}

SnapshotTitles == {<<>>, <<AutoTitle>>}

\* <<title, content, synopsis, position>> of a created document
CreateArgs == { << <<>>, <<>>, <<>>, <<>> >>,
                << <<"x">>, <<"a">>, <<"s">>, <<>> >>,
                << <<"x">>, <<>>, <<>>, <<0>> >> }

\* the titles and positions documents are created with where only the binder
\* is followed: no title or one an entry has already; no position or the first
Titles == {<<>>, <<"x">>}

Positions == {<<>>, <<0>>}

Init ==
  /\ lock \in BOOLEAN
  /\ now = 1
  /\ uuidGen = 3
  /\ ops = 0
  /\ \E p \in InitialProjects :
       /\ index = [Modified |-> <<"2021">>, ModID |-> "0", items |-> p.items]
       /\ fs = p.fs
  /\ tree = [h \in Handles |-> parse_binder(index)]
  /\ last = Call("open", WriterA, "", <<>>, <<>>, FALSE, <<>>, "ok", <<>>)
  /\ pre = [lock |-> lock, now |-> now, index |-> index, fs |-> fs, tree |-> tree,
            prev_op |-> "none", prev_err |-> "ok", uuidGen |-> uuidGen]
  /\ root = ProjectDir
  /\ proc = [h \in Handles |-> Idle]

\* --------------------------------------------------------- the environment
\* a second passes (the clock is followed up to the last call)
Tick ==
  /\ ops < MaxOps
  /\ now < MaxClock
  /\ now' = now + 1
  /\ UNCHANGED <<lock, uuidGen, ops, index, fs, tree, last, pre, root, proc>>

\* the owning application opens the project and creates user.lock
ScrivenerOpens ==
  /\ ops < MaxOps
  /\ ~lock
  /\ lock' = TRUE
  /\ UNCHANGED <<now, uuidGen, ops, index, fs, tree, last, pre, root, proc>>

\* the owning application closes the project and removes user.lock
ScrivenerCloses ==
  /\ ops < MaxOps
  /\ lock
  /\ lock' = FALSE
  /\ UNCHANGED <<now, uuidGen, ops, index, fs, tree, last, pre, root, proc>>

\* ---------------------------------------------------------------- calls
\* read_document(item): the decoded content; nothing is written
ReadDocument(h, i) ==
  /\ ops < MaxOps
  /\ i \in 1..Len(tree[h])
  /\ Made(Call("read_document", h, tree[h][i].uuid, <<>>, <<>>, FALSE, <<>>, "ok",
               read_document(fs, tree[h][i].uuid)))
  /\ UNCHANGED <<lock, now, uuidGen, index, fs, tree>>

\* create_snapshot(item, title)
CreateSnapshot(h, i, title) ==
  /\ ops < MaxOps
  /\ i \in 1..Len(tree[h])
  /\ LET item == tree[h][i]
         c(err, ret) == Call("create_snapshot", h, item.uuid, title, <<>>, FALSE, <<>>,
                             err, ret)
     IN  IF ~is_text(item) THEN Raise(c("InvalidTarget", <<>>))
         ELSE /\ fs' = create_snapshot_files(fs, item.uuid, title)
              /\ Made(c("ok", snapshot_filename(now, title)))
              /\ UNCHANGED <<lock, now, uuidGen, index, tree>>

\* write_document(item, content, create_snapshot)
WriteDocument(h, i, content, create_snap) ==
  /\ ops < MaxOps
  /\ i \in 1..Len(tree[h])
  /\ LET item == tree[h][i]
         c(err) == Call("write_document", h, item.uuid, <<>>, content, create_snap, <<>>,
                        err, <<>>)
     IN  IF is_locked THEN Raise(c("Locked"))
         ELSE IF ~is_text(item) THEN Raise(c("InvalidTarget"))
         ELSE /\ fs' = write_document_files(fs, item.uuid, content, create_snap)
              /\ Made(c("ok"))
              /\ UNCHANGED <<lock, now, uuidGen, index, tree>>

\* write_synopsis(item, synopsis)
WriteSynopsis(h, i, synopsis) ==
  /\ ops < MaxOps
  /\ i \in 1..Len(tree[h])
  /\ LET item == tree[h][i]
         c(err) == Call("write_synopsis", h, item.uuid, <<>>, synopsis, FALSE, <<>>,
                        err, <<>>)
     IN  IF is_locked THEN Raise(c("Locked"))
         ELSE /\ fs' = write_synopsis_files(fs, item.uuid, synopsis)
              /\ Made(c("ok"))
              /\ UNCHANGED <<lock, now, uuidGen, index, tree>>

\* write_notes(item, notes, create_snapshot)
WriteNotes(h, i, notes, create_snap) ==
  /\ ops < MaxOps
  /\ i \in 1..Len(tree[h])
  /\ LET item == tree[h][i]
         c(err) == Call("write_notes", h, item.uuid, <<>>, notes, create_snap, <<>>,
                        err, <<>>)
     IN  IF is_locked THEN Raise(c("Locked"))
         ELSE /\ fs' = write_notes_files(fs, item.uuid, notes, create_snap)
              /\ Made(c("ok"))
              /\ UNCHANGED <<lock, now, uuidGen, index, tree>>

\* create_document(title, parent, content, synopsis, include_in_compile, position)
CreateDocument(h, title, p, content, synopsis, include_in_compile, position) ==
  /\ ops < MaxOps
  /\ p \in 1..Len(tree[h])
  /\ LET parent == tree[h][p]
         c(err, ret) == Call("create_document", h, parent.uuid, title, content,
                             include_in_compile, position, err, ret)
         new_uuid == uuid4(1)
         timestamp == strftime_scrivx(now)
         read == ET_parse(index, tree[h])
         parent_elem == _find_binder_item_element(read.items, parent.uuid)
         elem == new_elem(new_uuid, timestamp, title, include_in_compile,
                          read.items[parent_elem].depth + 1)
         scrivx == patch_scrivx(read, parent_elem, elem, position, timestamp, uuid4(2))
     IN  IF is_locked THEN Raise(c("Locked", <<>>))
         ELSE IF ~is_folder(parent) THEN Raise(c("InvalidTarget", <<>>))
         ELSE IF parent_elem = None
           THEN \* the payload is on disk already when the parent is looked up
                /\ fs' = create_document_files(fs, new_uuid, content, synopsis)
                /\ uuidGen' = uuidGen + 1
                /\ Made(c("ParentNotFound", <<>>))
                /\ UNCHANGED <<lock, now, index, tree>>
           ELSE /\ fs' = create_document_files(fs, new_uuid, content, synopsis)
                /\ uuidGen' = uuidGen + 2
                /\ index' = scrivx
                /\ tree' = [tree EXCEPT ![h] = reload_binder(@, scrivx)]
                /\ Made(c("ok", IF find_by_uuid(tree'[h], new_uuid) = None THEN <<>>
                                ELSE <<find_by_uuid(tree'[h], new_uuid)>>))
                /\ UNCHANGED <<lock, now>>

\* ------------------------------------------------------- specifications
\* one handle, the only writer of the project, beside the owning application
\* taking and releasing its lock
\* the calls made on handle h, on any entry of its forest
Reads(h) == \E i \in 1..Len(tree[h]) : ReadDocument(h, i)

Snapshots(h) ==
  \E i \in 1..Len(tree[h]), title \in SnapshotTitles : CreateSnapshot(h, i, title)

DocumentWrites(h) ==
  \E i \in 1..Len(tree[h]), content \in Texts, s \in BOOLEAN :
    WriteDocument(h, i, content, s)

SynopsisWrites(h) ==
  \E i \in 1..Len(tree[h]), synopsis \in Synopses : WriteSynopsis(h, i, synopsis)

NotesWrites(h) ==
  \E i \in 1..Len(tree[h]), notes \in NoteTexts, s \in BOOLEAN :
    WriteNotes(h, i, notes, s)

Creates(h) ==
  \E p \in 1..Len(tree[h]), a \in CreateArgs :
    CreateDocument(h, a[1], p, a[2], a[3], TRUE, a[4])

BinderCreates(h) ==
  \E p \in 1..Len(tree[h]), title \in Titles, position \in Positions,
     include_in_compile \in BOOLEAN :
    CreateDocument(h, title, p, <<>>, <<>>, include_in_compile, position)

Next ==
  \/ Tick
  \/ ScrivenerOpens
  \/ ScrivenerCloses
  \/ Reads(WriterA)
  \/ Snapshots(WriterA)
  \/ DocumentWrites(WriterA)
  \/ SynopsisWrites(WriterA)
  \/ NotesWrites(WriterA)
  \/ Creates(WriterA)

Spec == Init /\ [][Next]_vars

\* the binder alone: documents created one after the other by the only
\* writer, with every title, position and compile flag
NextBinder ==
  \/ Tick
  \/ BinderCreates(WriterA)

SpecBinder == Init /\ [][NextBinder]_vars

\* the sibling position alone: documents created under a parent of no, one
\* or two children at no position, at each child index, past the last
\* child and counted from the end
ChildPositions == {<<>>, <<0>>, <<1>>, <<2>>, <<-1>>}

PositionCreates(h) ==
  \E p \in 1..Len(tree[h]), position \in ChildPositions :
    CreateDocument(h, <<"x">>, p, <<>>, <<>>, TRUE, position)

NextPosition ==
  \/ Tick
  \/ PositionCreates(WriterA)

SpecPosition == Init /\ [][NextPosition]_vars

\* two handles open on the project, documents created on the one or the
\* other, each call running to its end before the next is made
HandleCreates(h) ==
  \E p \in 1..Len(tree[h]), position \in Positions :
    CreateDocument(h, <<"x">>, p, <<>>, <<>>, TRUE, position)

NextHandles == \E h \in Handles : HandleCreates(h)

SpecHandles == Init /\ [][NextHandles]_vars

\* another writer (the owning application, say) rewrites the index file
\* without one of its elements and what is below it; the forests built from
\* the file before are not told
IndexRewritten ==
  /\ ops < MaxOps
  /\ \E k \in 1..Len(index.items) :
       index' = [index EXCEPT
                   !.items = SubSeq(@, 1, k - 1)
                               \o SubSeq(@, SubtreeEnd(index.items, k) + 1, Len(@))]
  /\ UNCHANGED <<lock, now, uuidGen, ops, fs, tree, last, pre, root, proc>>

\* documents created on a handle whose forest may be older than the index
NextStale ==
  \/ IndexRewritten
  \/ Creates(WriterA)

SpecStale == Init /\ [][NextStale]_vars

\* ------------------------------------------------------------ reading
\* a draft folder holding a part with an included scene of two lines, a
\* scene kept out of the compile, and below that one an included scene
ProjectThree ==
  [items |-> << Elem("1", "DraftFolder", <<"Draft">>, <<"Y", "e", "s">>, 0),
                Elem("2", "Folder", <<"Part One">>, <<"Y", "e", "s">>, 1),
                Elem("3", "Text", <<"Scene 1">>, <<"Y", "e", "s">>, 2),
                Elem("4", "Text", <<"Scene 2">>, <<"N", "o">>, 2),
                Elem("5", "Text", <<"Scene 3">>, <<"Y", "e", "s">>, 3) >>,
   fs    |-> [dirs  |-> {data_dir("3"), data_dir("4"), data_dir("5")},
              files |-> (get_content_path("3")
                           :> text_to_rtf(<<"N", "o", "\n", " ", "o", "n">>))
                          @@ (get_content_path("4") :> text_to_rtf(<<"z", " ", "o">>))
                          @@ (get_content_path("5") :> text_to_rtf(<<"y">>))]]

\* a draft folder that is not a root entry, holding a part kept out of the
\* compile that has a text of its own and two included scenes, and after it
\* a second draft folder with a scene
ProjectFour ==
  [items |-> << Elem("1", "Folder", <<"r">>, <<"Y", "e", "s">>, 0),
                Elem("2", "DraftFolder", <<"d">>, <<"Y", "e", "s">>, 1),
                Elem("3", "Folder", <<"p">>, <<"N", "o">>, 2),
                Elem("4", "Text", <<"t">>, <<"Y", "e", "s">>, 3),
                Elem("5", "Text", <<"s">>, <<"Y", "e", "s">>, 3),
                Elem("6", "DraftFolder", <<"e">>, <<"Y", "e", "s">>, 0),
                Elem("7", "Text", <<"u">>, <<"Y", "e", "s">>, 1) >>,
   fs    |-> [dirs  |-> {data_dir("3"), data_dir("4"), data_dir("5"), data_dir("7")},
              files |-> (get_content_path("3") :> text_to_rtf(<<"w", " ", "w">>))
                          @@ (get_content_path("4") :> text_to_rtf(<<"q">>))
                          @@ (get_content_path("5") :> text_to_rtf(<<"k">>))
                          @@ (get_content_path("7") :> text_to_rtf(<<"v">>))]]

ReadProjects == {ProjectOne, ProjectTwo, ProjectThree, ProjectFour}

\* the patterns searched for
Queries == {<<"o">>, <<"N">>, <<".">>, <<" ", "o">>}

\* get_word_count(item, recursive)
WordCount(h, i, recursive) ==
  /\ ops < MaxOps
  /\ i \in 1..Len(tree[h])
  /\ Made(Call("get_word_count", h, tree[h][i].uuid, <<>>, <<>>, recursive, <<>>, "ok",
               <<get_word_count(fs, tree[h], i, recursive)>>))
  /\ UNCHANGED <<lock, now, uuidGen, index, fs, tree>>

\* search(query, case_sensitive)
Search(h, query, case_sensitive) ==
  /\ ops < MaxOps
  /\ Made(Call("search", h, "", <<>>, query, case_sensitive, <<>>, "ok",
               search(fs, tree[h], query, case_sensitive)))
  /\ UNCHANGED <<lock, now, uuidGen, index, fs, tree>>

\* find_draft_folder()
FindDraftFolder(h) ==
  /\ ops < MaxOps
  /\ Made(Call("find_draft_folder", h, "", <<>>, <<>>, FALSE, <<>>, "ok",
               IF find_draft_folder(tree[h]) = None THEN <<>>
               ELSE <<find_draft_folder(tree[h])>>))
  /\ UNCHANGED <<lock, now, uuidGen, index, fs, tree>>

\* get_manuscript_text(include_titles)
Compile(h, include_titles) ==
  /\ ops < MaxOps
  /\ Made(Call("get_manuscript_text", h, "", <<>>, <<>>, include_titles, <<>>, "ok",
               get_manuscript_text(fs, tree[h], include_titles)))
  /\ UNCHANGED <<lock, now, uuidGen, index, fs, tree>>

\* an opened, unlocked project that is read while its contents are rewritten
InitRead ==
  /\ lock = FALSE
  /\ now = 1
  /\ uuidGen = 7
  /\ ops = 0
  /\ \E p \in ReadProjects :
       /\ index = [Modified |-> <<"2021">>, ModID |-> "0", items |-> p.items]
       /\ fs = p.fs
  /\ tree = [h \in Handles |-> parse_binder(index)]
  /\ last = Call("open", WriterA, "", <<>>, <<>>, FALSE, <<>>, "ok", <<>>)
  /\ pre = [lock |-> lock, now |-> now, index |-> index, fs |-> fs, tree |-> tree,
            prev_op |-> "none", prev_err |-> "ok", uuidGen |-> uuidGen]
  /\ root = ProjectDir
  /\ proc = [h \in Handles |-> Idle]

ContentWrites(h) ==
  \E i \in 1..Len(tree[h]), content \in Texts : WriteDocument(h, i, content, FALSE)

WordCounts(h) ==
  \E i \in 1..Len(tree[h]), recursive \in BOOLEAN : WordCount(h, i, recursive)

Searches(h) ==
  \E query \in Queries, case_sensitive \in BOOLEAN : Search(h, query, case_sensitive)

Compiles(h) == \E include_titles \in BOOLEAN : Compile(h, include_titles)

NextRead ==
  \/ ContentWrites(WriterA)
  \/ WordCounts(WriterA)
  \/ Searches(WriterA)
  \/ Compiles(WriterA)
  \/ FindDraftFolder(WriterA)

SpecRead == InitRead /\ [][NextRead]_vars

\* -------------------------------------------------------------- the codec
\* printable characters, the three that are escaped, and the line break
CodecAlphabet == {"a", " ", "\n", "\\", "{", "}"}

CodecTexts == UNION {[1..n -> CodecAlphabet] : n \in 0..MaxLen}

\* the file the encoded text is written to and read back from
CodecPath == get_content_path("3")

\* a text to encode is chosen
InitCodec ==
  /\ lock = FALSE
  /\ now = 1
  /\ uuidGen = 3
  /\ ops = 0
  /\ index = [Modified |-> <<"2021">>, ModID |-> "0", items |-> ProjectOne.items]
  /\ fs = ProjectOne.fs
  /\ tree = [h \in Handles |-> parse_binder(index)]
  /\ \E text \in CodecTexts :
       last = Call("text", WriterA, "3", <<>>, text, FALSE, <<>>, "ok", <<>>)
  /\ pre = [lock |-> lock, now |-> now, index |-> index, fs |-> fs, tree |-> tree,
            prev_op |-> "none", prev_err |-> "ok", uuidGen |-> uuidGen]
  /\ root = ProjectDir
  /\ proc = [h \in Handles |-> Idle]

\* path.write_text(text_to_rtf(text))
Encode ==
  /\ last.op = "text"
  /\ fs' = write_text(mkdir(fs, data_dir("3")), CodecPath, text_to_rtf(last.text))
  /\ Made([last EXCEPT !.op = "text_to_rtf", !.ret = text_to_rtf(last.text)])
  /\ UNCHANGED <<lock, now, uuidGen, index, tree>>

\* read_rtf(path)
Decode ==
  /\ last.op = "text_to_rtf"
  /\ Made([last EXCEPT !.op = "read_rtf", !.ret = read_rtf(fs, CodecPath)])
  /\ UNCHANGED <<lock, now, uuidGen, index, fs, tree>>

NextCodec ==
  \/ Encode
  \/ Decode

SpecCodec == InitCodec /\ [][NextCodec]_vars

\* ------------------------------------------------- calls, step by step
\* Two instances, one per handle, each making one call whose file steps
\* interleave with the other's; the process of an instance can die between
\* any two of its steps.
\* open(path, "w"): the file is created or cut to nothing
truncate(f, file) == write_text(f, file, <<>>)

\* write(data) on a file opened for writing: data lands at the start of the
\* file, over what another writer may have put there since it was opened
overwrite(f, file, data) ==
  write_text(f, file, data \o SubSeq(f.files[file], Len(data) + 1, Len(f.files[file])))

\* the index file opened for writing and not written yet: empty, not XML
Truncated == [Modified |-> <<>>, ModID |-> "", items |-> <<>>]

\* the call on handle h is at step pc and its process is alive
At(h, pc) == proc[h].pc = pc /\ ~proc[h].crashed

Goto(h, pc) == proc' = [proc EXCEPT ![h].pc = pc]

\* the call on handle h returns or raises
Finish(h, err, ret) ==
  /\ proc' = [proc EXCEPT ![h].pc = "done"]
  /\ last' = Call(proc[h].op, h, proc[h].item, proc[h].title, proc[h].text,
                  proc[h].flag, proc[h].position, err, ret)
  /\ ops' = ops + 1

\* the snapshot file of the running write_document on handle h
SnapshotPath(h) ==
  get_snapshots_path(proc[h].item) \o snapshot_filename(proc[h].t, <<AutoTitle>>)

\* write_document(item, content, create_snapshot) is called
StartWrite(h, i, content, create_snap) ==
  /\ At(h, "idle")
  /\ i \in 1..Len(tree[h])
  /\ proc' = [proc EXCEPT ![h] = [Idle EXCEPT !.pc = "wd_checks", !.op = "write_document",
                                              !.item = tree[h][i].uuid, !.text = content,
                                              !.flag = create_snap]]
  /\ UNCHANGED <<lock, now, uuidGen, ops, index, fs, tree, last, pre, root>>

\* where write_document goes after its checks: to the snapshot or to the write
after_checks_no_snapshot(f, uuid, create_snap) == "wd_mkdir"

after_checks(f, uuid, create_snap) ==
  IF create_snap /\ exists(f, get_content_path(uuid)) THEN "cs_mkdir" ELSE "wd_mkdir"

\* lines 247-258: the lock, the kind, whether there is content to snapshot
WdChecks(h) ==
  /\ At(h, "wd_checks")
  /\ LET item == tree[h][find_by_uuid(tree[h], proc[h].item)]
     IN  IF is_locked THEN Finish(h, "Locked", <<>>)
         ELSE IF ~is_text(item) THEN Finish(h, "InvalidTarget", <<>>)
         ELSE /\ Goto(h, after_checks(fs, proc[h].item, proc[h].flag))
              /\ UNCHANGED <<ops, last>>
  /\ UNCHANGED <<lock, now, uuidGen, index, fs, tree, pre, root>>

\* lines 218-219: the snapshot directory
CsMkdir(h) ==
  /\ At(h, "cs_mkdir")
  /\ fs' = mkdir(fs, get_snapshots_path(proc[h].item))
  /\ Goto(h, "cs_now")
  /\ UNCHANGED <<lock, now, uuidGen, ops, index, tree, last, pre, root>>

\* lines 222-225: the time that names the snapshot
CsNow(h) ==
  /\ At(h, "cs_now")
  /\ proc' = [proc EXCEPT ![h].pc = "cs_open", ![h].t = now]
  /\ UNCHANGED <<lock, now, uuidGen, ops, index, fs, tree, last, pre, root>>

\* lines 231-235: copy2 opens the snapshot file for writing (or, without a
\* content file, the empty document is written)
CsOpen(h) ==
  /\ At(h, "cs_open")
  /\ IF exists(fs, get_content_path(proc[h].item))
       THEN fs' = truncate(fs, SnapshotPath(h)) /\ Goto(h, "cs_data")
       ELSE fs' = write_text(fs, SnapshotPath(h), text_to_rtf(<<>>)) /\ Goto(h, "wd_mkdir")
  /\ UNCHANGED <<lock, now, uuidGen, ops, index, tree, last, pre, root>>

\* line 232: copy2 copies what the content file holds now
CsData(h) ==
  /\ At(h, "cs_data")
  /\ fs' = overwrite(fs, SnapshotPath(h), fs.files[get_content_path(proc[h].item)])
  /\ Goto(h, "wd_mkdir")
  /\ UNCHANGED <<lock, now, uuidGen, ops, index, tree, last, pre, root>>

\* lines 262-263: the data directory
WdMkdir(h) ==
  /\ At(h, "wd_mkdir")
  /\ fs' = mkdir(fs, data_dir(proc[h].item))
  /\ Goto(h, "wd_open")
  /\ UNCHANGED <<lock, now, uuidGen, ops, index, tree, last, pre, root>>

\* line 268: write_text opens the content file for writing
WdOpen(h) ==
  /\ At(h, "wd_open")
  /\ fs' = truncate(fs, get_content_path(proc[h].item))
  /\ Goto(h, "wd_data")
  /\ UNCHANGED <<lock, now, uuidGen, ops, index, tree, last, pre, root>>

\* line 268: write_text writes the encoded content and returns
WdData(h) ==
  /\ At(h, "wd_data")
  /\ fs' = overwrite(fs, get_content_path(proc[h].item), text_to_rtf(proc[h].text))
  /\ Finish(h, "ok", <<>>)
  /\ UNCHANGED <<lock, now, uuidGen, index, tree, pre, root>>

\* create_document(title, parent, content, synopsis, True, position) is
\* called; a is <<title, content, synopsis, position>>
StartCreate(h, p, a) ==
  /\ At(h, "idle")
  /\ p \in 1..Len(tree[h])
  /\ proc' = [proc EXCEPT ![h] = [Idle EXCEPT !.pc = "cd_checks", !.op = "create_document",
                                              !.item = tree[h][p].uuid, !.title = a[1],
                                              !.text = a[2], !.synopsis = a[3],
                                              !.flag = TRUE, !.position = a[4]]]
  /\ UNCHANGED <<lock, now, uuidGen, ops, index, fs, tree, last, pre, root>>

\* lines 342-355: the lock, the parent's kind, the identifier and the time
CdChecks(h) ==
  /\ At(h, "cd_checks")
  /\ LET parent == tree[h][find_by_uuid(tree[h], proc[h].item)]
     IN  IF is_locked THEN Finish(h, "Locked", <<>>) /\ UNCHANGED uuidGen
         ELSE IF ~is_folder(parent)
           THEN Finish(h, "InvalidTarget", <<>>) /\ UNCHANGED uuidGen
         ELSE /\ proc' = [proc EXCEPT ![h].pc = "cd_mkdir", ![h].uuid = uuid4(1),
                                       ![h].t = now]
              /\ uuidGen' = uuidGen + 1
              /\ UNCHANGED <<ops, last>>
  /\ UNCHANGED <<lock, now, index, fs, tree, pre, root>>

\* the step of create_document that follows the content file
after_content(h) ==
  IF proc[h].synopsis # <<>> THEN "cd_synopsis_open" ELSE "cd_parse"

\* lines 358-362: the data directory
CdMkdir(h) ==
  /\ At(h, "cd_mkdir")
  /\ fs' = mkdir(fs, data_dir(proc[h].uuid))
  /\ Goto(h, IF proc[h].text # <<>> THEN "cd_content_open" ELSE after_content(h))
  /\ UNCHANGED <<lock, now, uuidGen, ops, index, tree, last, pre, root>>

\* line 364: write_text opens the new content file
CdContentOpen(h) ==
  /\ At(h, "cd_content_open")
  /\ fs' = truncate(fs, get_content_path(proc[h].uuid))
  /\ Goto(h, "cd_content_data")
  /\ UNCHANGED <<lock, now, uuidGen, ops, index, tree, last, pre, root>>

\* line 364: write_text writes the encoded content
CdContentData(h) ==
  /\ At(h, "cd_content_data")
  /\ fs' = overwrite(fs, get_content_path(proc[h].uuid), text_to_rtf(proc[h].text))
  /\ Goto(h, after_content(h))
  /\ UNCHANGED <<lock, now, uuidGen, ops, index, tree, last, pre, root>>

\* line 369: write_text opens the new synopsis file
CdSynopsisOpen(h) ==
  /\ At(h, "cd_synopsis_open")
  /\ fs' = truncate(fs, get_synopsis_path(proc[h].uuid))
  /\ Goto(h, "cd_synopsis_data")
  /\ UNCHANGED <<lock, now, uuidGen, ops, index, tree, last, pre, root>>

\* line 369: write_text writes the synopsis
CdSynopsisData(h) ==
  /\ At(h, "cd_synopsis_data")
  /\ fs' = overwrite(fs, get_synopsis_path(proc[h].uuid), proc[h].synopsis)
  /\ Goto(h, "cd_parse")
  /\ UNCHANGED <<lock, now, uuidGen, ops, index, tree, last, pre, root>>

\* lines 372-414: the index file is read and patched in memory
CdParse(h) ==
  /\ At(h, "cd_parse")
  /\ LET read == ET_parse(index, tree[h])
         parent_elem == _find_binder_item_element(read.items, proc[h].item)
         timestamp == strftime_scrivx(proc[h].t)
         elem == new_elem(proc[h].uuid, timestamp, proc[h].title, proc[h].flag,
                          read.items[parent_elem].depth + 1)
     IN  IF index = Truncated THEN Finish(h, "MalformedIndex", <<>>) /\ UNCHANGED uuidGen
         ELSE IF parent_elem = None
           THEN Finish(h, "ParentNotFound", <<>>) /\ UNCHANGED uuidGen
         ELSE /\ proc' = [proc EXCEPT
                            ![h].pc = "cd_index_open",
                            ![h].scrivx = patch_scrivx(read, parent_elem, elem,
                                                       proc[h].position, timestamp,
                                                       uuid4(1))]
              /\ uuidGen' = uuidGen + 1
              /\ UNCHANGED <<ops, last>>
  /\ UNCHANGED <<lock, now, index, fs, tree, pre, root>>

\* lines 442-446: tree.write opens the index file for writing
CdIndexOpen(h) ==
  /\ At(h, "cd_index_open")
  /\ index' = Truncated
  /\ Goto(h, "cd_index_data")
  /\ UNCHANGED <<lock, now, uuidGen, ops, fs, tree, last, pre, root>>

\* lines 442-446: tree.write writes the patched index
CdIndexData(h) ==
  /\ At(h, "cd_index_data")
  /\ index' = proc[h].scrivx
  /\ Goto(h, "cd_reload")
  /\ UNCHANGED <<lock, now, uuidGen, ops, fs, tree, last, pre, root>>

\* lines 420-424: the forest is rebuilt from the index file and searched
CdReload(h) ==
  /\ At(h, "cd_reload")
  /\ IF index = Truncated
       THEN Finish(h, "MalformedIndex", <<>>) /\ UNCHANGED tree
       ELSE /\ tree' = [tree EXCEPT ![h] = reload_binder(@, index)]
            /\ Finish(h, "ok", IF find_by_uuid(tree'[h], proc[h].uuid) = None THEN <<>>
                                ELSE <<find_by_uuid(tree'[h], proc[h].uuid)>>)
  /\ UNCHANGED <<lock, now, uuidGen, index, fs, pre, root>>

\* the process of the instance dies where it stands
Crash(h) ==
  /\ proc[h].pc \notin {"idle", "done"}
  /\ ~proc[h].crashed
  /\ proc' = [proc EXCEPT ![h].crashed = TRUE]
  /\ UNCHANGED <<lock, now, uuidGen, ops, index, fs, tree, last, pre, root>>

\* the content the written entry starts with
C0 == OldContent

\* the project of ProjectOne after a snapshotting write made in the second
\* in which the calls start
ProjectOneSnapshotted ==
  [items |-> ProjectOne.items,
   fs    |-> [dirs  |-> ProjectOne.fs.dirs \cup {get_snapshots_path("2")},
              files |-> ProjectOne.fs.files
                          @@ ((get_snapshots_path("2") \o snapshot_filename(1, <<AutoTitle>>))
                                :> OldNotes)]]

StepProjects == {ProjectOne, ProjectOneSnapshotted}

\* <<title, content, synopsis, position>> of the documents created
StepCreateArgs == { << <<"x">>, <<"a">>, <<"s">>, <<>> >>,
                    << <<"y">>, <<>>, <<>>, <<0>> >> }

InitSteps ==
  /\ lock \in BOOLEAN
  /\ now = 1
  /\ uuidGen = 3
  /\ ops = 0
  /\ \E p \in StepProjects :
       /\ index = [Modified |-> <<"2021">>, ModID |-> "0", items |-> p.items]
       /\ fs = p.fs
  /\ tree = [h \in Handles |-> parse_binder(index)]
  /\ last = Call("open", WriterA, "", <<>>, <<>>, FALSE, <<>>, "ok", <<>>)
  /\ pre = [lock |-> lock, now |-> now, index |-> index, fs |-> fs, tree |-> tree,
            prev_op |-> "none", prev_err |-> "ok", uuidGen |-> uuidGen]
  /\ root = ProjectDir
  /\ proc = [h \in Handles |-> Idle]

StartWrites(h) ==
  \E i \in 1..Len(tree[h]), content \in Texts : StartWrite(h, i, content, TRUE)

StartCreates(h) ==
  \E p \in 1..Len(tree[h]), a \in StepCreateArgs : StartCreate(h, p, a)

NextSteps ==
  \/ Tick
  \/ \E h \in Handles : StartWrites(h)
  \/ \E h \in Handles : WdChecks(h)
  \/ \E h \in Handles : CsMkdir(h)
  \/ \E h \in Handles : CsNow(h)
  \/ \E h \in Handles : CsOpen(h)
  \/ \E h \in Handles : CsData(h)
  \/ \E h \in Handles : WdMkdir(h)
  \/ \E h \in Handles : WdOpen(h)
  \/ \E h \in Handles : WdData(h)
  \/ \E h \in Handles : StartCreates(h)
  \/ \E h \in Handles : CdChecks(h)
  \/ \E h \in Handles : CdMkdir(h)
  \/ \E h \in Handles : CdContentOpen(h)
  \/ \E h \in Handles : CdContentData(h)
  \/ \E h \in Handles : CdSynopsisOpen(h)
  \/ \E h \in Handles : CdSynopsisData(h)
  \/ \E h \in Handles : CdParse(h)
  \/ \E h \in Handles : CdIndexOpen(h)
  \/ \E h \in Handles : CdIndexData(h)
  \/ \E h \in Handles : CdReload(h)
  \/ \E h \in Handles : Crash(h)

SpecSteps == InitSteps /\ [][NextSteps]_vars

\* One instance making one call step by step while the owning application
\* opens and closes the project as it pleases.
NextLock ==
  \/ ScrivenerOpens
  \/ ScrivenerCloses
  \/ StartWrites(WriterA)
  \/ WdChecks(WriterA)
  \/ CsMkdir(WriterA)
  \/ CsNow(WriterA)
  \/ CsOpen(WriterA)
  \/ CsData(WriterA)
  \/ WdMkdir(WriterA)
  \/ WdOpen(WriterA)
  \/ WdData(WriterA)
  \/ StartCreates(WriterA)
  \/ CdChecks(WriterA)
  \/ CdMkdir(WriterA)
  \/ CdContentOpen(WriterA)
  \/ CdContentData(WriterA)
  \/ CdSynopsisOpen(WriterA)
  \/ CdSynopsisData(WriterA)
  \/ CdParse(WriterA)
  \/ CdIndexOpen(WriterA)
  \/ CdIndexData(WriterA)
  \/ CdReload(WriterA)

SpecLock == InitSteps /\ [][NextLock]_vars

\* ------------------------------------------------------------- opening
\* What can lie at the project path.  An entry of a directory has a name, a
\* suffix and a kind; a file entry is XML with a Binder element ("binder":
\* the file holding index), XML without one ("nobinder") or not well-formed
\* ("malformed", an empty file included).
EntryNames == {"p", "q"}

Suffixes == {".scrivx", ".txt"}

Entries ==
  [name : EntryNames, suffix : Suffixes, kind : {"file"},
   xml : {"binder", "nobinder", "malformed"}]
    \cup [name : EntryNames, suffix : Suffixes, kind : {"dir"}, xml : {"none"}]

Directories ==
  {E \in SUBSET Entries :
     \A a, b \in E : (a.name = b.name /\ a.suffix = b.suffix) => a = b}

Roots ==
  {[kind |-> "absent", entries |-> {}], [kind |-> "file", entries |-> {}]}
    \cup {[kind |-> "dir", entries |-> E] : E \in Directories}

\* _find_scrivx: the first entry iterdir yields that has the suffix; iterdir
\* yields in arbitrary order, so any of them can be the one returned
_find_scrivx(r) == {f \in r.entries : f.suffix = ".scrivx"}

\* ScrivenerProject(path) on handle h
Open(h) ==
  /\ ops < MaxOps
  /\ LET c(err) == Call("open", h, "", <<>>, <<>>, FALSE, <<>>, err, <<>>)
         fail(err) == Made(c(err)) /\ UNCHANGED <<lock, now, uuidGen, index, fs, tree>>
     IN  IF root.kind = "absent" THEN fail("NotFound")
         ELSE IF root.kind # "dir" THEN fail("InvalidProject")
         ELSE IF _find_scrivx(root) = {} THEN fail("InvalidProject")
         ELSE \E f \in _find_scrivx(root) :
                IF f.kind = "dir" THEN fail("IsADirectory")
                ELSE IF f.xml = "malformed" THEN fail("MalformedIndex")
                ELSE /\ tree' = [tree EXCEPT ![h] = IF f.xml = "nobinder" THEN <<>>
                                                    ELSE parse_binder(index)]
                     /\ Made(c("ok"))
                     /\ UNCHANGED <<lock, now, uuidGen, index, fs>>

\* nothing opened yet: anything can lie at the path
InitOpen ==
  /\ lock = FALSE
  /\ now = 1
  /\ uuidGen = 3
  /\ ops = 0
  /\ index = [Modified |-> <<"2021">>, ModID |-> "0", items |-> ProjectOne.items]
  /\ fs = ProjectOne.fs
  /\ tree = [h \in Handles |-> <<>>]
  /\ last = Call("none", WriterA, "", <<>>, <<>>, FALSE, <<>>, "ok", <<>>)
  /\ pre = [lock |-> lock, now |-> now, index |-> index, fs |-> fs, tree |-> tree,
            prev_op |-> "none", prev_err |-> "ok", uuidGen |-> uuidGen]
  /\ root \in Roots
  /\ proc = [h \in Handles |-> Idle]

Opens == \E h \in Handles : Open(h)

NextOpen == Opens

SpecOpen == InitOpen /\ [][NextOpen]_vars

\* ------------------------------------------------------------ properties
\* the calls that check the lock
Mutating == {"write_document", "write_synopsis", "write_notes", "create_document"}

\* the forest of the handle the last call was made on, now and before it
After == tree[last.h]

Before == pre.tree[last.h]

Succeeded(op) == last.op = op /\ last.err = "ok"

\* the files under a directory, with their contents
Listing(f, dir) == [p \in listdir(f, dir) |-> f.files[p]]

\* C1: a mutating call (write_document, write_synopsis, write_notes,
\* create_document, whatever its arguments) made while user.lock exists fails
\* with Locked and leaves every directory and file, the index file and the
\* handle's forest exactly as they were.
C1_LockedCallChangesNothing ==
  (last.op \in Mutating /\ pre.lock) =>
    /\ last.err = "Locked"
    /\ fs = pre.fs
    /\ index = pre.index
    /\ tree = pre.tree

\* a write_document on an entry that is not a text, refused for the lock
C1_Witness ==
  /\ last.op = "write_document"
  /\ pre.lock
  /\ last.err = "Locked"
  /\ \E k \in 1..Len(Before) : Before[k].uuid = last.item /\ ~is_text(Before[k])

\* C2: the lock is read at every call: a mutating call is refused with Locked
\* exactly when user.lock exists at the time of that call, whatever the lock
\* was at open time or at an earlier call.
C2_RefusedIffLockedAtCall ==
  last.op \in Mutating => (last.err = "Locked" <=> pre.lock)

\* a mutating call refused right after a mutating call that was let through
C2_Witness ==
  /\ last.op \in Mutating
  /\ last.err = "Locked"
  /\ pre.prev_op \in Mutating
  /\ pre.prev_err = "ok"

\* what C3 says of a successful create_document with the default position,
\* the new entry being looked up under the title read as asRead
C3_Body(asRead) ==
  LET new == last.ret[1]
      parentBefore == find_by_uuid(Before, last.item)
      parentNow == find_by_uuid(After, last.item)
      kids == Children(After, parentNow)
      p == path(Before, parentBefore) \o <<"/">> \o asRead
  IN  /\ last.ret # <<>>
      /\ \A k \in 1..Len(Before) : Before[k].uuid # After[new].uuid
      /\ Parent(After, new) = parentNow
      /\ kids[Len(kids)] = new
      /\ (\A k \in 1..(new - 1) : path(After, k) # p) => find_by_path(After, p) = new
      /\ Cardinality(ChildSet(index.items,
                              _find_binder_item_element(index.items, last.item)))
           = Cardinality(ChildSet(pre.index.items,
                                  _find_binder_item_element(pre.index.items, last.item)))
               + 1

\* C3 as stated: after a successful create_document(title, parent) with the
\* default position the new entry has an identifier no entry had, is the last
\* child of parent, is what find_by_path returns for parent's path + "/" +
\* title when no earlier entry has that path, and parent has exactly one more
\* child element in the index file.
C3_Original ==
  (Succeeded("create_document") /\ last.position = <<>>) => C3_Body(last.title)

\* C3 amended: the same, the path looked up being parent's path + "/" + the
\* title as parse_binder_item reads it back: the given title, or "Untitled"
\* when the given title is empty.
C3_Amended ==
  (Succeeded("create_document") /\ last.position = <<>>) =>
    C3_Body(IF last.title # <<>> THEN last.title ELSE <<"Untitled">>)

\* a document appended to a parent that had a child already
C3_Witness ==
  /\ Succeeded("create_document")
  /\ last.position = <<>>
  /\ ChildSet(Before, find_by_uuid(Before, last.item)) # {}

\* C4: a successful create_document keeps every entry that existed, with its
\* identifier, title, kind, timestamps, compile flag and parent and in the
\* same order: the new forest is the old one plus exactly one new leaf.
C4_CreateKeepsExistingEntries ==
  Succeeded("create_document") =>
    LET new == last.ret[1]
        shift(k) == IF k < new THEN k ELSE k + 1
        uuidOf(s, k) == IF k = None THEN "" ELSE s[k].uuid
    IN  /\ last.ret # <<>>
        /\ Len(After) = Len(Before) + 1
        /\ ChildSet(After, new) = {}
        /\ \A k \in 1..Len(Before) :
             /\ After[shift(k)] = Before[k]
             /\ uuidOf(After, Parent(After, shift(k))) = uuidOf(Before, Parent(Before, k))
        /\ \A k \in 1..Len(Before) :
             Children(Before, k)
               = SelectSeq([j \in 1..Len(Children(After, shift(k))) |->
                              IF Children(After, shift(k))[j] = new THEN 0
                              ELSE IF Children(After, shift(k))[j] < new
                                     THEN Children(After, shift(k))[j]
                                     ELSE Children(After, shift(k))[j] - 1],
                           LAMBDA x : x # 0)

\* a document created in front of an existing sibling
C4_Witness ==
  /\ Succeeded("create_document")
  /\ last.ret # <<>>
  /\ \E k \in ChildSet(After, Parent(After, last.ret[1])) : k > last.ret[1]

\* C5: after open and after every call on the only writing handle, the
\* handle's forest is the forest parsed from the index file on disk.
C5_TreeIsParsedIndex == tree[WriterA] = parse_binder(index)

\* the index has been rewritten twice
C5_Witness ==
  /\ Succeeded("create_document")
  /\ pre.prev_op = "create_document"
  /\ Len(index.items) = Len(ProjectOne.items) + 2

\* C6: from a project with pairwise distinct identifiers, after any calls of
\* create_document the identifiers are pairwise distinct and find_by_uuid of
\* an entry's identifier is that entry.
C6_IdentifiersUnique ==
  /\ \A i, j \in 1..Len(tree[WriterA]) :
       tree[WriterA][i].uuid = tree[WriterA][j].uuid => i = j
  /\ \A i \in 1..Len(tree[WriterA]) :
       find_by_uuid(tree[WriterA], tree[WriterA][i].uuid) = i

\* two documents have been created
C6_Witness ==
  /\ Succeeded("create_document")
  /\ Len(tree[WriterA]) = Len(ProjectOne.items) + 2

\* an entry's path is its title for a root entry and its parent's path, "/"
\* and its title below a root
PathIsJoinedTitles(s, i) ==
  path(s, i) = IF Parent(s, i) = None THEN s[i].title
               ELSE path(s, Parent(s, i)) \o <<"/">> \o s[i].title

\* the entries of a forest that have the path of entry i
SamePath(s, i) == LET p == path(s, i) IN {k \in 1..Len(s) : path(s, k) = p}

\* C7 as stated: every entry's path is the "/"-joined titles from its root
\* ancestor down to it, and find_by_path of that path returns that entry.
C7_Original ==
  \A i \in 1..Len(tree[WriterA]) :
    /\ PathIsJoinedTitles(tree[WriterA], i)
    /\ find_by_path(tree[WriterA], path(tree[WriterA], i)) = i

\* C7 amended: every entry's path is the "/"-joined titles from its root
\* ancestor down to it, and find_by_path of that path returns the first
\* entry in depth-first order that has this path: the entry itself exactly
\* when no earlier entry has an equal path.
C7_Amended ==
  \A i \in 1..Len(tree[WriterA]) :
    LET found == find_by_path(tree[WriterA], path(tree[WriterA], i))
        same == SamePath(tree[WriterA], i)
    IN  /\ PathIsJoinedTitles(tree[WriterA], i)
        /\ found \in same
        /\ \A k \in same : found <= k
        /\ (found = i <=> \A k \in same : i <= k)

\* a created document below a root whose path an earlier entry has too
C7_Witness ==
  /\ Succeeded("create_document")
  /\ last.ret # <<>>
  /\ After[last.ret[1]].depth > 0
  /\ \E k \in 1..(last.ret[1] - 1) : path(After, k) = path(After, last.ret[1])

\* the snapshot write_document takes at time t
AutoSnapshotPath(uuid, t) ==
  get_snapshots_path(uuid) \o <<strftime(t), " ", AutoTitle, ".rtf">>

\* C8: write_document(e, t, snapshot=true) on a text whose content file
\* exists with bytes c0 leaves a snapshot file named by the time of the call
\* that holds exactly c0, and the content file holding the encoding of t.
C8_SnapshotHoldsPriorContent ==
  (Succeeded("write_document") /\ last.flag
     /\ exists(pre.fs, get_content_path(last.item))) =>
    /\ exists(fs, AutoSnapshotPath(last.item, pre.now))
    /\ fs.files[AutoSnapshotPath(last.item, pre.now)]
         = pre.fs.files[get_content_path(last.item)]
    /\ fs.files[get_content_path(last.item)] = text_to_rtf(last.text)

\* a snapshotting write that changed the content
C8_Witness ==
  /\ Succeeded("write_document")
  /\ last.flag
  /\ exists(pre.fs, get_content_path(last.item))
  /\ fs.files[get_content_path(last.item)] # pre.fs.files[get_content_path(last.item)]

\* C9 as stated: write_document(e, t, snapshot=true) on a text that has no
\* content file adds nothing to e's snapshot directory and creates a content
\* file from which read_document returns t.
C9_Original ==
  (Succeeded("write_document") /\ last.flag
     /\ ~exists(pre.fs, get_content_path(last.item))) =>
    /\ Listing(fs, get_snapshots_path(last.item))
         = Listing(pre.fs, get_snapshots_path(last.item))
    /\ exists(fs, get_content_path(last.item))
    /\ read_document(fs, last.item) = last.text

\* C10 as stated: a snapshot file, once created, is never changed or removed
\* by a later call.
C10_Original ==
  \A p \in DOMAIN pre.fs.files :
    p[1] = "Snapshots" => (p \in DOMAIN fs.files /\ fs.files[p] = pre.fs.files[p])

\* the entry a call was made on, as the handle held it when the call was made
Target == Before[find_by_uuid(Before, last.item)]

FolderKinds == {"Folder", "DraftFolder", "ResearchFolder", "TrashFolder"}

\* C12: write_document on an entry whose kind is not Text (a folder kind or
\* an unknown kind), made while the project is not locked, fails with
\* InvalidTarget and leaves every directory and file (data directories,
\* content files, snapshots), the index and the forest as they were.
C12_WriteToNonTextRefused ==
  (last.op = "write_document" /\ ~pre.lock /\ Target.item_type # "Text") =>
    /\ last.err = "InvalidTarget"
    /\ fs = pre.fs
    /\ index = pre.index
    /\ tree = pre.tree

\* a snapshotting write refused on an entry of unknown kind that has a
\* content file
C12_Witness ==
  /\ last.op = "write_document"
  /\ ~pre.lock
  /\ last.flag
  /\ Target.item_type \notin FolderKinds \cup {"Text"}
  /\ exists(pre.fs, get_content_path(last.item))
  /\ last.err = "InvalidTarget"

\* C13: create_document under a parent whose kind is not a folder kind (Text
\* or an unknown kind), made while the project is not locked, fails with
\* InvalidTarget before anything is allocated or written: no identifier is
\* drawn, no directory or file is created, the index and the forest are as
\* they were.
C13_CreateUnderNonFolderRefused ==
  (last.op = "create_document" /\ ~pre.lock /\ Target.item_type \notin FolderKinds) =>
    /\ last.err = "InvalidTarget"
    /\ uuidGen = pre.uuidGen
    /\ fs = pre.fs
    /\ index = pre.index
    /\ tree = pre.tree

\* a document with content and synopsis refused under an entry of unknown kind
C13_Witness ==
  /\ last.op = "create_document"
  /\ ~pre.lock
  /\ Target.item_type \notin FolderKinds \cup {"Text"}
  /\ last.text # <<>>
  /\ last.err = "InvalidTarget"

\* the index files of a directory
IndexFiles(r) == {f \in r.entries : f.suffix = ".scrivx" /\ f.kind = "file"}

\* C14 as stated: open fails with NotFound on a path that does not exist;
\* with InvalidProject on a path that is not a directory and on a directory
\* that contains no index file; with an error and no handle when the index
\* file is not well-formed; and otherwise returns a handle with the parsed
\* forest.
C14_Original ==
  last.op = "open" =>
    /\ root.kind = "absent" => last.err = "NotFound"
    /\ root.kind = "file" => last.err = "InvalidProject"
    /\ (root.kind = "dir" /\ IndexFiles(root) = {}) => last.err = "InvalidProject"
    /\ (root.kind = "dir" /\ IndexFiles(root) # {}
          /\ \A f \in IndexFiles(root) : f.xml = "malformed") =>
         last.err \notin {"ok", "NotFound", "InvalidProject"}
    /\ (root.kind = "dir" /\ IndexFiles(root) # {}
          /\ \A f \in _find_scrivx(root) : f.kind = "file" /\ f.xml # "malformed") =>
         /\ last.err = "ok"
         /\ \E f \in IndexFiles(root) :
              tree[last.h] = IF f.xml = "nobinder" THEN <<>> ELSE parse_binder(index)

\* the sum of g over the finite set S
RECURSIVE Sum(_, _)
Sum(g, S) ==
  IF S = {} THEN 0
  ELSE LET x == CHOOSE y \in S : TRUE IN g[x] + Sum(g, S \ {x})

\* the text-kind entries of the subtree of entry i, i included
TextsBelow(s, i) == {k \in i..SubtreeEnd(s, i) : s[k].item_type = "Text"}

\* C15: get_word_count(root, recursive=True) is the sum of
\* get_word_count(e, recursive=False) over the text-kind entries e of root's
\* subtree, root included, whatever the forest and the content files.
C15_RecursiveCountIsSum ==
  (last.op = "get_word_count" /\ last.flag) =>
    LET i == find_by_uuid(After, last.item)
    IN  last.ret[1] = Sum([k \in TextsBelow(After, i) |->
                             get_word_count(fs, After, k, FALSE)],
                          TextsBelow(After, i))

\* a recursive count over a folder that holds a counted text and an entry of
\* another kind whose content file has words
C15_Witness ==
  /\ last.op = "get_word_count"
  /\ last.flag
  /\ last.ret[1] > 0
  /\ LET i == find_by_uuid(After, last.item)
     IN  \E k \in i..SubtreeEnd(After, i) :
           /\ After[k].item_type # "Text"
           /\ count_words(read_document(fs, After[k].uuid)) > 0

\* line contains query as it is written, under the case sensitivity asked for
Contains(line, query, case_sensitive) ==
  \E k \in 1..(Len(line) - Len(query) + 1) :
    \A j \in 1..Len(query) :
      IF case_sensitive THEN query[j] = line[k + j - 1]
      ELSE LowerChar(query[j]) = LowerChar(line[k + j - 1])

\* the lines of the decoded content of entry k
LinesOf(k) == split(read_document(fs, After[k].uuid), <<>>)

\* C16 as stated: search returns only text-kind entries, an entry only if
\* one of its lines matches, and every returned line contains the query
\* under the requested case sensitivity.
C16_Original ==
  last.op = "search" =>
    \A n \in 1..Len(last.ret) :
      LET r == last.ret[n]
      IN  /\ After[r.item].item_type = "Text"
          /\ r.lines # <<>>
          /\ \A j \in 1..Len(r.lines) : Contains(r.lines[j], last.text, last.flag)

\* C16 amended: search returns only text-kind entries, an entry only if one
\* of its lines matches, and the lines returned for an entry are, in their
\* order, the trimmed forms of exactly those lines of its decoded content
\* that the query, read as a pattern, matches under the requested case
\* sensitivity.
C16_Amended ==
  last.op = "search" =>
    \A n \in 1..Len(last.ret) :
      LET r == last.ret[n]
          hits == {m \in 1..Len(LinesOf(r.item)) :
                     re_search(last.text, LinesOf(r.item)[m], last.flag)}
      IN  /\ After[r.item].item_type = "Text"
          /\ hits # {}
          /\ Len(r.lines) = Cardinality(hits)
          /\ \A j \in 1..Len(r.lines) :
               r.lines[j] = strip(LinesOf(r.item)[SortedSeq(hits)[j]])

\* a search that returned a line, while an entry of another kind has a
\* content file with a matching line
C16_Witness ==
  /\ last.op = "search"
  /\ last.ret # <<>>
  /\ \E k \in 1..Len(After) :
       /\ After[k].item_type # "Text"
       /\ \E m \in 1..Len(LinesOf(k)) : re_search(last.text, LinesOf(k)[m], last.flag)

\* sub occurs in text as a run of consecutive symbols
Occurs(sub, text) ==
  \E k \in 1..(Len(text) - Len(sub) + 1) : SubSeq(text, k, k + Len(sub) - 1) = sub

\* what is written of entry k occurs in no other entry's title or content
OnlyIn(k, written) ==
  \A j \in 1..Len(After) :
    j # k => /\ ~Occurs(written, After[j].title)
             /\ ~Occurs(written, read_document(fs, After[j].uuid))

\* the text entries whose compile flag is false
Excluded == {k \in 1..Len(After) :
               After[k].item_type = "Text" /\ ~After[k].include_in_compile}

\* C17: get_manuscript_text emits no part (title or content) for a text
\* entry whose compile flag is false, wherever it stands, and no part for
\* the draft folder itself, for both values of include_titles; the text it
\* returns is made of the emitted parts, so what only such an entry holds
\* (its title, its content) does not occur in it.
C17_CompileSkipsExcluded ==
  last.op = "get_manuscript_text" =>
    LET parts == manuscript_parts(fs, After, last.flag)
        draft == find_draft_folder(After)
    IN  /\ last.ret = join(<<"\n">>, [k \in 1..Len(parts) |-> parts[k].text])
        /\ \A n \in 1..Len(parts) : parts[n].src \notin Excluded \cup {draft}
        /\ \A k \in Excluded \cup ({draft} \ {None}) :
             /\ OnlyIn(k, After[k].title) => ~Occurs(After[k].title, last.ret)
             /\ (k # draft /\ read_document(fs, After[k].uuid) # <<>>
                   /\ OnlyIn(k, read_document(fs, After[k].uuid))) =>
                  ~Occurs(read_document(fs, After[k].uuid), last.ret)

\* a compile with titles that emitted the heading of a folder marked for
\* compile while that folder holds a text with content that is kept out
C17_Witness ==
  /\ last.op = "get_manuscript_text"
  /\ last.flag
  /\ \E k \in Excluded :
       /\ read_document(fs, After[k].uuid) # <<>>
       /\ Parent(After, k) # None
       /\ After[Parent(After, k)].include_in_compile
       /\ After[Parent(After, k)].item_type = "Folder"
       /\ Occurs(After[Parent(After, k)].title, last.ret)

\* C18 as stated: for every plain text t of printable characters and line
\* breaks in any pattern (single, double or longer runs, leading or trailing
\* line breaks or spaces, backslashes and braces), decoding the encoding of
\* t gives t.
C18_Original == last.op = "read_rtf" => last.ret = last.text

\* the other instance
Other(h) == CHOOSE g \in Handles : g # h

\* both instances have run write_document with a snapshot on the entry that
\* held C0, and both have returned
BothWrote ==
  \A h \in Handles :
    /\ proc[h].op = "write_document"
    /\ proc[h].flag
    /\ proc[h].item = "2"
    /\ proc[h].pc = "done"

\* C11 as stated: when two instances each run write_document with a snapshot
\* on the same entry holding c0, then however their file steps interleave,
\* once both have returned the content file holds the text of the instance
\* that wrote last and the snapshot of the instance that wrote first holds c0.
C11_Original ==
  (BothWrote /\ ~lock) =>
    /\ fs.files[get_content_path("2")] = text_to_rtf(proc[last.h].text)
    /\ exists(fs, SnapshotPath(Other(last.h)))
    /\ fs.files[SnapshotPath(Other(last.h))] = C0

\* the new document's initial files are on disk as create_document writes them
PayloadWritten(h) ==
  /\ proc[h].text # <<>> =>
       /\ exists(fs, get_content_path(proc[h].uuid))
       /\ fs.files[get_content_path(proc[h].uuid)] = text_to_rtf(proc[h].text)
  /\ proc[h].synopsis # <<>> =>
       /\ exists(fs, get_synopsis_path(proc[h].uuid))
       /\ fs.files[get_synopsis_path(proc[h].uuid)] = proc[h].synopsis

\* the index file names the identifier
Referenced(uuid) == \E k \in 1..Len(index.items) : index.items[k].UUID = uuid

\* C19 as stated: create_document writes the payload, then the index, then
\* rebuilds the forest, so that wherever the call stands or its process has
\* died the index file either does not name the new identifier or names it
\* with the payload fully written, and payload files that the index does not
\* name are the only partial state there is: the index file is the one the
\* call found or the complete new one.
C19_Original ==
  \A h \in Handles :
    (proc[h].op = "create_document" /\ proc[h].uuid # ""
       /\ proc[Other(h)].pc = "idle") =>
      /\ Referenced(proc[h].uuid) => PayloadWritten(h)
      /\ tree[h] # pre.tree[h] => Referenced(proc[h].uuid)
      /\ \/ index = pre.index
         \/ Referenced(proc[h].uuid) /\ index = proc[h].scrivx

\* write_document with a snapshot is running, or has died or returned, on
\* handle h, on an entry that had a content file, the other instance idle
WritingAlone(h) ==
  /\ proc[h].op = "write_document"
  /\ proc[h].flag
  /\ proc[Other(h)].pc = "idle"
  /\ exists(pre.fs, get_content_path(proc[h].item))

\* C20: during write_document(e, t, snapshot) on an entry whose content file
\* holds c0, wherever the call stands or its process has died, c0 is whole in
\* the content file or in the finished snapshot file; and between the
\* snapshot and the overwrite the snapshot holds c0 and the content file
\* still holds c0.
C20_PriorContentNeverLost ==
  \A h \in Handles :
    WritingAlone(h) =>
      LET c0 == pre.fs.files[get_content_path(proc[h].item)]
          snapshotted == /\ exists(fs, SnapshotPath(h))
                         /\ fs.files[SnapshotPath(h)] = c0
      IN  /\ fs.files[get_content_path(proc[h].item)] = c0 \/ snapshotted
          /\ proc[h].pc \in {"wd_mkdir", "wd_open"} =>
               snapshotted /\ fs.files[get_content_path(proc[h].item)] = c0

\* the process died after it had opened the content file for writing: the
\* content file is empty and the snapshot holds what it held
C20_Witness ==
  /\ WritingAlone(WriterA)
  /\ proc[WriterA].crashed
  /\ proc[WriterA].pc = "wd_data"
  /\ fs.files[get_content_path(proc[WriterA].item)] = <<>>
  /\ fs.files[SnapshotPath(WriterA)] = C0

\* C21: for a parent with n children before the call, create_document with a
\* position p, 0 <= p < n, puts the new entry at child index p, the children
\* the parent had keeping their order around it; with no position or p >= n
\* the new entry is the last child (index n).
C21_CreateAtPosition ==
  (Succeeded("create_document")
     /\ (last.position = <<>> \/ last.position[1] >= 0)) =>
    LET new == last.ret[1]
        old == Children(Before, find_by_uuid(Before, last.item))
        kids == Children(After, find_by_uuid(After, last.item))
        n == Len(old)
        at == IF last.position # <<>> /\ last.position[1] < n
                THEN last.position[1] ELSE n
    IN  /\ last.ret # <<>>
        /\ Len(kids) = n + 1
        /\ kids[at + 1] = new
        /\ \A k \in 1..n :
             After[kids[IF k <= at THEN k ELSE k + 1]].uuid = Before[old[k]].uuid

\* a document created at child index 1 of a parent that had two children
C21_Witness ==
  /\ Succeeded("create_document")
  /\ last.position = <<1>>
  /\ Len(Children(Before, find_by_uuid(Before, last.item))) = 2
  /\ Children(After, find_by_uuid(After, last.item))[2] = last.ret[1]

\* what C22 says of a successful create_document, the title of the returned
\* entry being compared with expected
C22_Body(expected) ==
  /\ last.ret # <<>>
  /\ LET new == last.ret[1]
     IN  /\ new \in 1..Len(After)
         /\ After[new].item_type = "Text"
         /\ After[new].title = expected
         /\ After[new].include_in_compile = last.flag
         /\ ChildSet(After, new) = {}
         /\ Parent(After, new) # None
         /\ After[Parent(After, new)].uuid = last.item

\* C22 as stated: a successful create_document returns an entry of the
\* rebuilt forest (never none) that is a Text, has the given title (whatever
\* the title, the empty one included), the requested compile flag, no
\* children, and a parent with the requested parent's identifier.
C22_Original ==
  Succeeded("create_document") => C22_Body(last.title)

\* C22 amended: the same, the title being the given title as
\* parse_binder_item reads it back: the given title, or "Untitled" when the
\* given title is empty.
C22_Amended ==
  Succeeded("create_document") =>
    C22_Body(IF last.title # <<>> THEN last.title ELSE <<"Untitled">>)

\* a document created with the empty title and kept out of the compile
C22_Witness ==
  /\ Succeeded("create_document")
  /\ last.title = <<>>
  /\ ~last.flag
  /\ last.ret # <<>>
  /\ After[last.ret[1]].title = <<"Untitled">>

\* C23 as stated: get_word_count(entry, recursive=False) is 0 for every entry
\* that is not a Text, whatever files exist under its identifier, and 0 for a
\* text whose content is empty or missing; otherwise it is the number of
\* whitespace-delimited tokens of the decoded content.
C23_Original ==
  (last.op = "get_word_count" /\ ~last.flag) =>
    LET i == find_by_uuid(After, last.item)
        content == read_document(fs, last.item)
    IN  last.ret[1] = IF After[i].item_type # "Text" \/ content = <<>> THEN 0
                      ELSE Cardinality({k \in 1..Len(content) :
                                          /\ content[k] \notin Whitespace
                                          /\ (k = 1 \/ content[k - 1] \in Whitespace)})

\* the entries below the draft folder the compile starts from
UnderDraft ==
  LET draft == find_draft_folder(After)
  IN  IF draft = None THEN {} ELSE (draft + 1)..SubtreeEnd(After, draft)

\* the decoded content of entry k
ContentOf(k) == read_document(fs, After[k].uuid)

\* C24 as stated: when a text entry under the draft folder has its compile
\* flag false, get_manuscript_text emits neither its content nor the content
\* of any entry nested beneath it (content that no other entry holds does not
\* occur in the text returned).
C24_Original ==
  last.op = "get_manuscript_text" =>
    \A k \in Excluded \cap UnderDraft :
      \A j \in k..SubtreeEnd(After, k) :
        (ContentOf(j) # <<>> /\ OnlyIn(j, ContentOf(j))) =>
          ~Occurs(ContentOf(j), last.ret)

\* where sub first occurs in text
FirstAt(sub, text) ==
  Min({k \in 1..(Len(text) - Len(sub) + 1) : SubSeq(text, k, k + Len(sub) - 1) = sub})

\* the included texts with content below entry k
EmittedBelow(k) ==
  {j \in (k + 1)..SubtreeEnd(After, k) :
     /\ After[j].item_type = "Text"
     /\ After[j].include_in_compile
     /\ ContentOf(j) # <<>>}

\* the folders under the draft folder whose compile flag is false
ExcludedFolders ==
  {k \in UnderDraft : After[k].item_type \in FolderKinds /\ ~After[k].include_in_compile}

\* C25: the compile flag is not inherited through folders: for a folder under
\* the draft folder whose flag is false, get_manuscript_text still emits its
\* heading (with include_titles) and the content of every text below it whose
\* own flag is true and whose content is not empty, in depth-first order.
C25_ExcludedFolderStillCompiled ==
  last.op = "get_manuscript_text" =>
    \A k \in ExcludedFolders :
      /\ last.flag =>
           Occurs(<<"\n">> \o Hashes(Min({After[k].depth, 4})) \o <<" ">>
                    \o After[k].title \o <<"\n">>, last.ret)
      /\ \A j \in EmittedBelow(k) : Occurs(ContentOf(j), last.ret)
      /\ \A i, j \in EmittedBelow(k) :
           (i < j /\ OnlyIn(i, ContentOf(i)) /\ OnlyIn(j, ContentOf(j))) =>
             FirstAt(ContentOf(i), last.ret) < FirstAt(ContentOf(j), last.ret)

\* a compile with titles of a draft folder holding a folder kept out of the
\* compile with two included scenes of different contents below it
C25_Witness ==
  /\ last.op = "get_manuscript_text"
  /\ last.flag
  /\ \E k \in ExcludedFolders :
       \E i, j \in EmittedBelow(k) :
         i < j /\ OnlyIn(i, ContentOf(i)) /\ OnlyIn(j, ContentOf(j))

\* the entries of kind DraftFolder
DraftFolders == {k \in 1..Len(After) : After[k].item_type = "DraftFolder"}

\* C26: find_draft_folder returns the first DraftFolder entry in depth-first
\* order over the root entries, at whatever depth it stands and however many
\* there are, and none when there is none; get_manuscript_text emits content
\* of that folder's subtree only, and the empty text when there is none.
C26_FirstDraftFolder ==
  /\ last.op = "find_draft_folder" =>
       IF DraftFolders = {} THEN last.ret = <<>>
       ELSE /\ last.ret # <<>>
            /\ last.ret[1] \in DraftFolders
            /\ \A k \in DraftFolders : last.ret[1] <= k
  /\ last.op = "get_manuscript_text" =>
       /\ DraftFolders = {} => last.ret = <<>>
       /\ \A first \in DraftFolders :
            (\A k \in DraftFolders : first <= k) =>
              \A j \in 1..Len(After) :
                (j \notin first..SubtreeEnd(After, first)
                   /\ ContentOf(j) # <<>> /\ OnlyIn(j, ContentOf(j))) =>
                  ~Occurs(ContentOf(j), last.ret)

\* the draft folder found below a root folder while a root draft folder
\* with a scene exists
C26_Witness ==
  /\ last.op = "find_draft_folder"
  /\ last.ret # <<>>
  /\ After[last.ret[1]].depth > 0
  /\ \E k \in DraftFolders :
       /\ After[k].depth = 0
       /\ \E j \in ChildSet(After, k) : ContentOf(j) # <<>>

\* the payload writes and the file each of them is for
PayloadWrites == {"write_document", "write_synopsis", "write_notes"}

TargetFile ==
  CASE last.op = "write_document" -> get_content_path(last.item)
    [] last.op = "write_synopsis" -> get_synopsis_path(last.item)
    [] OTHER -> get_notes_path(last.item)

\* the snapshot files of the written entry that the call has added
AddedSnapshots ==
  listdir(fs, get_snapshots_path(last.item)) \ DOMAIN pre.fs.files

\* C27 as stated: a successful write_document, write_synopsis or write_notes
\* on entry e changes only e's content, synopsis or notes file and (not
\* write_synopsis, and not with the snapshot option off) adds at most one
\* file to e's snapshot directory: the index file, the forest and every other
\* file that existed are as they were, and nothing else is added.
C27_Original ==
  (last.op \in PayloadWrites /\ last.err = "ok") =>
    /\ index = pre.index
    /\ tree = pre.tree
    /\ \A file \in DOMAIN pre.fs.files \ {TargetFile} :
         file \in DOMAIN fs.files /\ fs.files[file] = pre.fs.files[file]
    /\ (DOMAIN fs.files \ DOMAIN pre.fs.files) \subseteq {TargetFile} \cup AddedSnapshots
    /\ Cardinality(AddedSnapshots) <= 1
    /\ (last.op = "write_synopsis" \/ ~last.flag) => AddedSnapshots = {}

\* the identifiers of the elements of an index file
Uuids(scrivx) == {scrivx.items[k].UUID : k \in 1..Len(scrivx.items)}

\* C28: create_document patches the index as the file holds it, not the
\* forest of its handle: a successful create_document made when no other
\* call is running keeps every element the index file had, the elements
\* created on another handle included, and the forest the handle holds
\* afterwards has every entry of the index file (no entry is lost by calls
\* that do not interleave).
C28_CreateKeepsOtherHandlesEntries ==
  Succeeded("create_document") =>
    /\ Uuids(pre.index) \subseteq Uuids(index)
    /\ \A k \in 1..Len(pre.index.items) :
         \E j \in 1..Len(index.items) : index.items[j] = pre.index.items[k]
    /\ {After[k].uuid : k \in 1..Len(After)} = Uuids(index)
    /\ last.ret # <<>>

\* a document created on a handle whose forest did not have the entry
\* created before on the other handle
C28_Witness ==
  /\ Succeeded("create_document")
  /\ pre.prev_op = "create_document"
  /\ pre.prev_err = "ok"
  /\ \E u \in Uuids(pre.index) :
       /\ \A k \in 1..Len(Before) : Before[k].uuid # u
       /\ \E k \in 1..Len(After) : After[k].uuid = u
  /\ Len(After) = Len(Before) + 2

\* C29 as stated: nothing is written to the project while user.lock exists:
\* in no step taken while the lock file is present, the steps of a call that
\* passed its lock check before the owning application created the lock file
\* included, is a payload, snapshot or index file created or changed.
C29_Original ==
  [][lock => (fs'.files = fs.files /\ index' = index)]_vars

\* C30 as stated: a create_document that fails leaves the project as it was:
\* whatever the failure, a parent that the index file no longer names
\* included, no directory and no file has been created, the index file is
\* unchanged and the handle's forest is the one it held.
C30_Original ==
  (last.op = "create_document" /\ last.err # "ok") =>
    /\ fs = pre.fs
    /\ index = pre.index
    /\ tree = pre.tree

====
